---- MODULE Spec2Model ----
(***************************************************************************)
(* A model of dusted-go/security: the token generator and validator        *)
(* (token/generator.go, token/validator.go), the password hasher and       *)
(* validator (pwd/hashing.go) and the primitives they call (aes, pkcs7,    *)
(* sig, compare, rng).                                                     *)
(*                                                                         *)
(* Go strings and []byte are modelled alike, as sequences of byte values   *)
(* 0..255; Str("...") writes such a sequence as a literal.  Calls into     *)
(* libraries outside the repository (crypto/aes, crypto/hmac, pbkdf2,      *)
(* base62, encoding/base64, time) are modelled by small functions that     *)
(* keep the contract the repository relies on; each says so where it is    *)
(* defined.                                                                *)
(***************************************************************************)
EXTENDS Integers, Sequences, FiniteSets, TLC

VARIABLES
    now,      \* the wall clock read by Generator.now / Validator.now, in ticks
    issued,   \* the outcome of Generator.Generate, once it was called
    vres,     \* the outcome of the call of token Validator.Validate that is returning
    stored,   \* the outcome of Hasher.ComputeHash, once it was called
    pres,     \* the outcome of the call of ValidatePassword that is returning
    call,     \* the outcome of the call of a library function that is returning
    shared,   \* the instances that concurrent callers share, and the package state
    threads   \* the concurrent callers: what each one is calling, and its result

vars == <<now, issued, vres, stored, pres, call, shared, threads>>

---------------------------------------------------------------------------
(* Bytes and strings                                                       *)

\* The ASCII characters 32..95 and 97..126, in order.
PrintableLow == " !\"#$%&'()*+,-./0123456789:;<=>?@ABCDEFGHIJKLMNOPQRSTUVWXYZ[\\]^_"
PrintableHigh == "abcdefghijklmnopqrstuvwxyz{|}~"

\* The byte value of a one-character string.
Code(c) ==
    IF \E i \in 1..Len(PrintableLow) : SubSeq(PrintableLow, i, i) = c
    THEN 31 + CHOOSE i \in 1..Len(PrintableLow) : SubSeq(PrintableLow, i, i) = c
    ELSE 96 + CHOOSE i \in 1..Len(PrintableHigh) : SubSeq(PrintableHigh, i, i) = c

\* A literal as the sequence of its bytes.
Str(s) == [i \in 1..Len(s) |-> Code(SubSeq(s, i, i))]

Dot == Code(".")
Slash == Code("/")
Dash == Code("-")
Colon == Code(":")
UpperT == Code("T")
UpperZ == Code("Z")

RECURSIVE Sum(_)
Sum(s) == IF s = <<>> THEN 0 ELSE Head(s) + Sum(Tail(s))

\* Bit i (0 = least significant) of the byte b.
Bit(b, i) == (b \div (2 ^ i)) % 2

\* b with bit i inverted.
FlipBit(b, i) == IF Bit(b, i) = 1 THEN b - 2 ^ i ELSE b + 2 ^ i

\* The exclusive or of two bytes.
Xor(a, b) == Sum([i \in 1..8 |-> (2 ^ (i - 1)) * ((Bit(a, i - 1) + Bit(b, i - 1)) % 2)])

Repeat(b, n) == [i \in 1..n |-> b]

\* The first index of byte c in s, or 0.
IndexByte(s, c) ==
    LET at == {i \in 1..Len(s) : s[i] = c}
    IN  IF at = {} THEN 0 ELSE CHOOSE i \in at : \A j \in at : i <= j

\* strings.Split(s, sep) for a one-byte separator.
RECURSIVE Split(_, _)
Split(s, sep) ==
    LET i == IndexByte(s, sep)
    IN  IF i = 0 THEN <<s>>
        ELSE <<SubSeq(s, 1, i - 1)>> \o Split(SubSeq(s, i + 1, Len(s)), sep)

\* strings.SplitN(s, sep, n) for a one-byte separator and n > 0: at most n
\* parts, the last one the unsplit remainder.
RECURSIVE SplitN(_, _, _)
SplitN(s, sep, n) ==
    LET i == IndexByte(s, sep)
    IN  IF n <= 1 \/ i = 0 THEN <<s>>
        ELSE <<SubSeq(s, 1, i - 1)>> \o SplitN(SubSeq(s, i + 1, Len(s)), sep, n - 1)

\* strings.HasPrefix
HasPrefix(s, p) == Len(s) >= Len(p) /\ SubSeq(s, 1, Len(p)) = p

---------------------------------------------------------------------------
(* encoding/base64 (Go standard library), as the repository uses it:       *)
(* RawURLEncoding for tokens, StdEncoding for password hashes.  Neither is *)
(* a Strict() encoding, so the decoder skips \r and \n and ignores the     *)
(* unused trailing bits of a final partial quantum.                        *)

NoPadding == -1

\* base64.NewEncoding(alphabet): decodeMap gives the 6-bit value of each
\* byte of the alphabet and -1 for every other byte.
NewEncoding(alphabet, padChar) ==
    [encode |-> alphabet,
     decodeMap |-> [c \in 0..255 |-> IndexByte(alphabet, c) - 1],
     padChar |-> padChar]

RawURLEncoding ==
    NewEncoding(Str("ABCDEFGHIJKLMNOPQRSTUVWXYZabcdefghijklmnopqrstuvwxyz0123456789-_"),
                NoPadding)

StdEncoding ==
    NewEncoding(Str("ABCDEFGHIJKLMNOPQRSTUVWXYZabcdefghijklmnopqrstuvwxyz0123456789+/"),
                Code("="))

\* The 6-bit values of the bytes b, most significant first; the last one
\* is filled with zero bits when 8 * Len(b) is no multiple of 6.
Sextets(b) ==
    [k \in 1..((8 * Len(b) + 5) \div 6) |->
        LET j == (6 * (k - 1)) \div 8 + 1
            o == (6 * (k - 1)) % 8
            next == IF j < Len(b) THEN b[j + 1] ELSE 0
        IN  ((b[j] * 256 + next) \div (2 ^ (10 - o))) % 64]

\* Encoding.EncodeToString
EncodeToString(enc, b) ==
    LET six == Sextets(b)
        body == [i \in 1..Len(six) |-> enc.encode[six[i] + 1]]
    IN  IF enc.padChar = NoPadding \/ Len(b) % 3 = 0 THEN body
        ELSE body \o Repeat(enc.padChar, 3 - (Len(b) % 3))

\* The bytes written by the 6-bit values v: whole bytes only, so the bits
\* left over in a final quantum of 2 or 3 values are dropped unread.
Octets(v) ==
    [i \in 1..((6 * Len(v)) \div 8) |->
        LET a == (8 * (i - 1)) \div 6 + 1
            o == (8 * (i - 1)) % 6
        IN  ((v[a] * 64 + v[a + 1]) \div (2 ^ (4 - o))) % 256]

IsNewline(c) == c = 10 \/ c = 13

CorruptInput == [ok |-> FALSE, bytes |-> <<>>]

\* Encoding.DecodeString (Decode, decodeQuantum); ok is "err == nil".  The
\* decoder skips every \r and \n, wherever it stands.  Every other byte
\* must be of the alphabet, up to the end or to the padding; a quantum may
\* end after 2 or 3 characters only at the end of the input, and then only
\* with its padding if the encoding pads, and nothing follows the padding.
DecodeString(enc, s) ==
    LET t == SelectSeq(s, LAMBDA c : ~IsNewline(c))
        p == IF enc.padChar = NoPadding THEN 0 ELSE IndexByte(t, enc.padChar)
        n == IF p = 0 THEN Len(t) ELSE p - 1
        v == [i \in 1..n |-> enc.decodeMap[t[i]]]
    IN  IF \E i \in 1..n : v[i] < 0 THEN CorruptInput
        ELSE IF n % 4 = 1 THEN CorruptInput
        ELSE IF p = 0 /\ enc.padChar # NoPadding /\ n % 4 # 0 THEN CorruptInput
        ELSE IF p # 0 /\ n % 4 = 0 THEN CorruptInput
        ELSE IF p # 0 /\ n % 4 = 2 /\ SubSeq(t, p, Len(t)) # <<enc.padChar, enc.padChar>>
        THEN CorruptInput
        ELSE IF p # 0 /\ n % 4 = 3 /\ Len(t) # p THEN CorruptInput
        ELSE [ok |-> TRUE, bytes |-> Octets(v)]

---------------------------------------------------------------------------
(* time (Go standard library).  A time.Time in UTC is [day, tod]: the day  *)
(* number since 1970-01-01 and the ticks since midnight; a time.Duration   *)
(* is a number of ticks.                                                   *)

\* Ticks per second: the resolution of the clock's sub-second component.
TicksPerSecond == 2

TicksPerDay == 24 * 60 * 60 * TicksPerSecond

\* Floor division, also for negative a.
FloorDiv(a, b) == IF a >= 0 THEN a \div b ELSE -((-a + b - 1) \div b)

\* The day number (days since 1970-01-01) of the proleptic Gregorian date.
DaysFromCivil(year, month, day) ==
    LET y == IF month <= 2 THEN year - 1 ELSE year
        era == FloorDiv(y, 400)
        yoe == y - era * 400
        mp == IF month > 2 THEN month - 3 ELSE month + 9
        doy == (153 * mp + 2) \div 5 + day - 1
        doe == yoe * 365 + yoe \div 4 - yoe \div 100 + doy
    IN  era * 146097 + doe - 719468

\* The date [year, month, day] of a day number.
CivilFromDays(days) ==
    LET z == days + 719468
        era == FloorDiv(z, 146097)
        doe == z - era * 146097
        yoe == (doe - doe \div 1460 + doe \div 36524 - doe \div 146096) \div 365
        doy == doe - (365 * yoe + yoe \div 4 - yoe \div 100)
        mp == (5 * doy + 2) \div 153
        m == IF mp < 10 THEN mp + 3 ELSE mp - 9
    IN  [year |-> yoe + era * 400 + (IF m <= 2 THEN 1 ELSE 0),
         month |-> m,
         day |-> doy - (153 * mp + 2) \div 5 + 1]

IsLeap(year) == year % 4 = 0 /\ (year % 100 # 0 \/ year % 400 = 0)

DaysIn(month, year) ==
    IF month = 2 THEN (IF IsLeap(year) THEN 29 ELSE 28)
    ELSE IF month \in {4, 6, 9, 11} THEN 30 ELSE 31

IsDigit(c) == c >= 48 /\ c <= 57

\* The decimal digits of n >= 0, at least width of them (appendInt).
RECURSIVE Digits(_, _)
Digits(n, width) ==
    IF n < 10 /\ width <= 1 THEN <<48 + n>>
    ELSE Append(Digits(n \div 10, width - 1), 48 + (n % 10))

\* The number written by the digits d.
RECURSIVE Atoi(_)
Atoi(d) == IF d = <<>> THEN 0 ELSE 10 * Atoi(SubSeq(d, 1, Len(d) - 1)) + d[Len(d)] - 48

\* Time.Add
Add(t, d) ==
    LET total == t.tod + d
    IN  [day |-> t.day + FloorDiv(total, TicksPerDay),
         tod |-> total - FloorDiv(total, TicksPerDay) * TicksPerDay]

\* Time.After
After(t, u) == t.day > u.day \/ (t.day = u.day /\ t.tod > u.tod)

\* Time.Sub, in ticks
Sub(t, u) == (t.day - u.day) * TicksPerDay + (t.tod - u.tod)

\* Time.Format(time.RFC3339) of a UTC time of year 0 or later: the
\* sub-second component is not written, a year above 9999 takes five digits.
FormatRFC3339(t) ==
    LET date == CivilFromDays(t.day)
        rem == t.tod \div TicksPerSecond
    IN  Digits(date.year, 4) \o <<Dash>> \o Digits(date.month, 2) \o <<Dash>>
        \o Digits(date.day, 2) \o <<UpperT>> \o Digits(rem \div 3600, 2) \o <<Colon>>
        \o Digits((rem % 3600) \div 60, 2) \o <<Colon>> \o Digits(rem % 60, 2)
        \o <<UpperZ>>

ParseError == [ok |-> FALSE, time |-> [day |-> 0, tod |-> 0]]

\* time.Parse(time.RFC3339, s) on the strings the model gives it: s of the
\* form YYYY-MM-DDThh:mm:ssZ with every field in range parses to that
\* instant; any other s of the model is one Go rejects as well.  (Go also
\* accepts a fraction of a second and a numeric zone offset; no string of
\* the model has either.)
ParseRFC3339(s) ==
    IF Len(s) # 20 THEN ParseError
    ELSE IF \E i \in {1, 2, 3, 4, 6, 7, 9, 10, 12, 13, 15, 16, 18, 19} : ~IsDigit(s[i])
    THEN ParseError
    ELSE IF <<s[5], s[8], s[11], s[14], s[17], s[20]>>
            # <<Dash, Dash, UpperT, Colon, Colon, UpperZ>> THEN ParseError
    ELSE LET year == Atoi(SubSeq(s, 1, 4))
             month == Atoi(SubSeq(s, 6, 7))
             day == Atoi(SubSeq(s, 9, 10))
             hour == Atoi(SubSeq(s, 12, 13))
             min == Atoi(SubSeq(s, 15, 16))
             sec == Atoi(SubSeq(s, 18, 19))
         IN  IF month < 1 \/ month > 12 \/ hour >= 24 \/ min >= 60 \/ sec >= 60
             THEN ParseError
             ELSE IF day < 1 \/ day > DaysIn(month, year) THEN ParseError
             ELSE [ok |-> TRUE,
                   time |-> [day |-> DaysFromCivil(year, month, day),
                             tod |-> (hour * 3600 + min * 60 + sec) * TicksPerSecond]]

\* time.Date(year, month, day, hour, min, sec, 0, time.UTC)
Date(year, month, day, hour, min, sec) ==
    [day |-> DaysFromCivil(year, month, day),
     tod |-> (hour * 3600 + min * 60 + sec) * TicksPerSecond]

---------------------------------------------------------------------------
(* compare, rng, pkcs7                                                     *)

\* compare.Hashes: the loop from index i on, equal the flag so far.
RECURSIVE HashesLoop(_, _, _, _)
HashesLoop(hash1, hash2, i, equal) ==
    IF i > Len(hash1) THEN equal
    ELSE HashesLoop(hash1, hash2, i + 1, equal /\ hash1[i] = hash2[i])

\* compare.Hashes
Hashes(hash1, hash2) ==
    IF Len(hash1) # Len(hash2) THEN FALSE ELSE HashesLoop(hash1, hash2, 1, TRUE)

\* compare.Hashes once more, with the indices (from 0) that the loop
\* visits.  A loop that returns at the first mismatch:
RECURSIVE HashesStepsEarlyExit(_, _, _, _, _)
HashesStepsEarlyExit(hash1, hash2, i, equal, visited) ==
    IF i > Len(hash1) \/ ~equal THEN [equal |-> equal, visited |-> visited]
    ELSE HashesStepsEarlyExit(hash1, hash2, i + 1, equal /\ hash1[i] = hash2[i],
                              Append(visited, i - 1))

\* The loop of the source:
RECURSIVE HashesSteps(_, _, _, _, _)
HashesSteps(hash1, hash2, i, equal, visited) ==
    IF i > Len(hash1) THEN [equal |-> equal, visited |-> visited]
    ELSE HashesSteps(hash1, hash2, i + 1, equal /\ hash1[i] = hash2[i],
                     Append(visited, i - 1))

HashesRun(hash1, hash2) ==
    IF Len(hash1) # Len(hash2) THEN [equal |-> FALSE, visited |-> <<>>]
    ELSE HashesSteps(hash1, hash2, 1, TRUE, <<>>)

\* How many different outcomes of crypto/rand the model draws from.
MaxSeed == 2

\* rng.GenerateBytes(length): the bytes crypto/rand yields under seed r.
GenerateBytes(length, r) == [i \in 1..length |-> (151 * r + 37 * i) % 256]

\* pkcs7.Pad, for blockSize >= 1 (each padding byte is byte(padLen)).
Pad(data, blockSize) ==
    LET padLen == blockSize - (Len(data) % blockSize)
    IN  data \o Repeat(padLen % 256, padLen)

\* pkcs7.Unpad, for blockSize >= 1.  panic: the slice expression
\* data[len(data)-padLen:] is out of range.
Unpad(data, blockSize) ==
    IF Len(data) % blockSize # 0 \/ Len(data) = 0
    THEN [ok |-> FALSE, panic |-> FALSE, bytes |-> <<>>]
    ELSE LET padLen == data[Len(data)]
             padding == SubSeq(data, Len(data) - padLen + 1, Len(data))
         IN  IF padLen > Len(data)
             THEN [ok |-> FALSE, panic |-> TRUE, bytes |-> <<>>]
             ELSE IF \E i \in 1..Len(padding) : padding[i] # padLen
             THEN [ok |-> FALSE, panic |-> FALSE, bytes |-> <<>>]
             ELSE [ok |-> TRUE, panic |-> FALSE,
                   bytes |-> SubSeq(data, 1, Len(data) - padLen)]

---------------------------------------------------------------------------
(* aes.  crypto/aes and crypto/cipher are outside the repository: the      *)
(* block cipher is modelled by a keyed permutation of 16-byte blocks, and  *)
(* CBC mode as it is defined, over that permutation.                       *)

\* aes.BlockSize
BlockSize == 16

ValidKeyLen(key) == Len(key) \in {16, 24, 32}

\* cipher.Block.Encrypt / Decrypt of one block under key.
EncryptBlock(key, b) == [i \in 1..Len(b) |-> (b[i] + key[((i - 1) % Len(key)) + 1] + i) % 256]
DecryptBlock(key, b) == [i \in 1..Len(b) |-> (b[i] + 512 - key[((i - 1) % Len(key)) + 1] - i) % 256]

XorBytes(a, b) == [i \in 1..Len(a) |-> Xor(a[i], b[i])]

\* cipher.NewCBCEncrypter(block, iv).CryptBlocks on whole blocks.
RECURSIVE CBCEncrypt(_, _, _)
CBCEncrypt(key, prev, plain) ==
    IF plain = <<>> THEN <<>>
    ELSE LET c == EncryptBlock(key, XorBytes(SubSeq(plain, 1, BlockSize), prev))
         IN  c \o CBCEncrypt(key, c, SubSeq(plain, BlockSize + 1, Len(plain)))

\* cipher.NewCBCDecrypter(block, iv).CryptBlocks on whole blocks.
RECURSIVE CBCDecrypt(_, _, _)
CBCDecrypt(key, prev, enc) ==
    IF enc = <<>> THEN <<>>
    ELSE LET c == SubSeq(enc, 1, BlockSize)
         IN  XorBytes(DecryptBlock(key, c), prev)
             \o CBCDecrypt(key, c, SubSeq(enc, BlockSize + 1, Len(enc)))

\* aes.Encrypt; r is the seed of the random IV.
Encrypt(key, plain, r) ==
    IF ~ValidKeyLen(key) THEN [ok |-> FALSE, bytes |-> <<>>]
    ELSE LET paddedPlain == Pad(plain, BlockSize)
             iv == GenerateBytes(BlockSize, r)
         IN  [ok |-> TRUE, bytes |-> iv \o CBCEncrypt(key, iv, paddedPlain)]

\* aes.Decrypt.  panic: scrambled[:ivLen] / scrambled[ivLen:] out of range
\* (fewer than ivLen bytes), CryptBlocks on input that is not whole blocks
\* ("crypto/cipher: input not full blocks"), or the panic of pkcs7.Unpad.
Decrypt(key, scrambled) ==
    IF ~ValidKeyLen(key) THEN [ok |-> FALSE, panic |-> FALSE, bytes |-> <<>>]
    ELSE IF Len(scrambled) < BlockSize THEN [ok |-> FALSE, panic |-> TRUE, bytes |-> <<>>]
    ELSE LET iv == SubSeq(scrambled, 1, BlockSize)
             encryptedBytes == SubSeq(scrambled, BlockSize + 1, Len(scrambled))
         IN  IF Len(encryptedBytes) % BlockSize # 0
             THEN [ok |-> FALSE, panic |-> TRUE, bytes |-> <<>>]
             ELSE Unpad(CBCDecrypt(key, iv, encryptedBytes), BlockSize)

---------------------------------------------------------------------------
(* sig.  crypto/hmac and crypto/sha256 are outside the repository: the MAC *)
(* is modelled by a keyed digest of Size bytes that tells apart any two    *)
(* messages of the model that differ in one byte or in two adjacent bytes. *)

\* sha256.Size
Size == 32

\* A polynomial hash of the bytes s[i..], continued from h >= 0.
RECURSIVE AbsorbFrom(_, _, _)
AbsorbFrom(h, s, i) ==
    IF i > Len(s) \/ h < 0 THEN h
    ELSE AbsorbFrom((h * 257 + s[i] + 1) % 8355961, s, i + 1)

Absorb(h, s) == AbsorbFrom(h, s, 1)

\* n bytes that determine h (for n >= 3).
Squeeze(h, n) == [i \in 1..n |-> ((h \div (256 ^ ((i - 1) % 3))) + 7 * ((i - 1) \div 3)) % 256]

\* sig.Compute(sha256.New, key, msg)
ComputeSHA256(key, msg) == Squeeze(Absorb(Absorb(Len(key) + 1, key), msg), Size)

\* sig.ValidateSHA256
ValidateSHA256(key, msg, signature) == Hashes(signature, ComputeSHA256(key, msg))

---------------------------------------------------------------------------
(* token: Generator and Validator                                          *)

\* error(nil)
Nil == "<nil>"

\* NewGenerator / NewValidator: an instance holds its two keys; `now` is
\* time.Now, the clock variable.
NewGenerator(encryptionKey, signingKey) ==
    [encryptionKey |-> encryptionKey, signingKey |-> signingKey]

NewValidator(encryptionKey, signingKey) ==
    [encryptionKey |-> encryptionKey, signingKey |-> signingKey]

\* Steps 4 and 5 without the return of step 3's error.
GenerateSignedAnyway(g, cipher) ==
    [token |-> EncodeToString(RawURLEncoding, ComputeSHA256(g.signingKey, cipher.bytes))
               \o <<Dot>> \o EncodeToString(RawURLEncoding, cipher.bytes),
     err |-> IF cipher.ok THEN Nil ELSE "could not generate token"]

\* Generate, steps 4 and 5: sign the ciphertext and join the two parts.
GenerateSigned(g, cipher) ==
    IF ~cipher.ok THEN [token |-> <<>>, err |-> "could not generate token"]
    ELSE [token |-> EncodeToString(RawURLEncoding, ComputeSHA256(g.signingKey, cipher.bytes))
                    \o <<Dot>> \o EncodeToString(RawURLEncoding, cipher.bytes),
          err |-> Nil]

\* A Generate that writes the payload into the record as it is, without
\* step 2's encoding.
GenerateRawData(g, kind, data, ttl, t, r) ==
    GenerateSigned(g,
        Encrypt(g.encryptionKey,
                kind \o <<Dot>> \o data \o <<Dot>> \o FormatRFC3339(Add(t, ttl)),
                r))

\* Generator.Generate(kind, data, ttl), the clock reading t, the IV seed r.
Generate(g, kind, data, ttl, t, r) ==
    GenerateSigned(g,
        Encrypt(g.encryptionKey,
                kind \o <<Dot>> \o EncodeToString(RawURLEncoding, data) \o <<Dot>>
                \o FormatRFC3339(Add(t, ttl)),
                r))

\* A return of Validate with an error: no data, and the calls made so far.
Reject(msg, calls) == [data |-> <<>>, err |-> msg, panic |-> FALSE, calls |-> calls]

\* A call of a collaborator as Validate makes it: the function, its
\* argument and whether it reported success.
Call(fn, arg, ret) == [fn |-> fn, arg |-> arg, ret |-> ret]

\* Validator.Validate(kind, token) at the clock reading t, written as the
\* chain of its numbered steps; each step returns or goes on to the next.
\* The result is [data, err], with panic (the call did not return but
\* panicked) and calls (in order, the collaborators called from step 4 on).

\* Steps 9 and 10: decode the payload and return it.
ValidateData(data, calls) ==
    IF ~data.ok THEN Reject("failed to base64 decode plaintext message", calls)
    ELSE [data |-> data.bytes, err |-> Nil, panic |-> FALSE, calls |-> calls]

\* A step 8 that takes the expiry instant itself for expired.
ValidateExpiryInclusive(msgParts, expiry, t, calls) ==
    IF ~expiry.ok THEN Reject("token does not include a valid expiry date", calls)
    ELSE IF ~After(expiry.time, t) THEN Reject("token expired", calls)
    ELSE ValidateData(DecodeString(RawURLEncoding, msgParts[2]), calls)

\* Step 8, second half: the clock against the expiry.
ValidateExpiry(msgParts, expiry, t, calls) ==
    IF ~expiry.ok THEN Reject("token does not include a valid expiry date", calls)
    ELSE IF After(t, expiry.time) THEN Reject("token expired", calls)
    ELSE ValidateData(DecodeString(RawURLEncoding, msgParts[2]), calls)

\* Step 8, first half: parse the expiry.
ValidateParsed(msgParts, expiry, t, calls) ==
    ValidateExpiry(msgParts, expiry, t,
                   Append(calls, Call("time.Parse", msgParts[3], expiry.ok)))

\* Steps 6 and 7 without the comparison of the kind.
ValidateRecordAnyKind(kind, plain, msgParts, t, calls) ==
    IF Len(msgParts) # 3
    THEN Reject("decrypted message must consist of 3 parts: token kind, data and expiry date",
                Append(calls, Call("strings.SplitN", plain, FALSE)))
    ELSE ValidateParsed(msgParts, ParseRFC3339(msgParts[3]), t,
                        Append(calls, Call("strings.SplitN", plain, TRUE)))

\* Steps 6 and 7: the three parts of the record, and the kind.
ValidateRecord(kind, plain, msgParts, t, calls) ==
    IF Len(msgParts) # 3
    THEN Reject("decrypted message must consist of 3 parts: token kind, data and expiry date",
                Append(calls, Call("strings.SplitN", plain, FALSE)))
    ELSE IF kind # msgParts[1]
    THEN Reject("token doesn't match expected kind",
                Append(calls, Call("strings.SplitN", plain, TRUE)))
    ELSE ValidateParsed(msgParts, ParseRFC3339(msgParts[3]), t,
                        Append(calls, Call("strings.SplitN", plain, TRUE)))

\* Step 5, after aes.Decrypt returned or panicked.
ValidateDecrypted(kind, cipher, plain, t, calls) ==
    IF plain.panic
    THEN [data |-> <<>>, err |-> Nil, panic |-> TRUE,
          calls |-> Append(calls, Call("aes.Decrypt", cipher, FALSE))]
    ELSE IF ~plain.ok
    THEN Reject("failed to decrypt data", Append(calls, Call("aes.Decrypt", cipher, FALSE)))
    ELSE ValidateRecord(kind, plain.bytes, SplitN(plain.bytes, Dot, 3), t,
                        Append(calls, Call("aes.Decrypt", cipher, TRUE)))

\* A step 4 that decrypts whatever the signature check returned.
ValidateSignedOrNot(v, kind, cipher, sigOK, t) ==
    ValidateDecrypted(kind, cipher, Decrypt(v.encryptionKey, cipher), t,
                      <<Call("sig.ValidateSHA256", cipher, sigOK)>>)

\* Step 4, after sig.ValidateSHA256 returned, and the call of aes.Decrypt.
ValidateSigned(v, kind, cipher, sigOK, t) ==
    IF ~sigOK
    THEN Reject("signature does not match data", <<Call("sig.ValidateSHA256", cipher, FALSE)>>)
    ELSE ValidateDecrypted(kind, cipher, Decrypt(v.encryptionKey, cipher), t,
                           <<Call("sig.ValidateSHA256", cipher, TRUE)>>)

\* Step 3: the two parts must be base64; then the call of step 4.
ValidateDecoded(v, kind, signature, cipher, t) ==
    IF ~signature.ok THEN Reject("signature must be base64 encoded", <<>>)
    ELSE IF ~cipher.ok THEN Reject("data must be base64 encoded", <<>>)
    ELSE ValidateSigned(v, kind, cipher.bytes,
                        ValidateSHA256(v.signingKey, cipher.bytes, signature.bytes), t)

\* Step 2: the token must have its two parts.
ValidateParts(v, kind, tokenParts, t) ==
    IF Len(tokenParts) # 2
    THEN Reject("token must consist of two parts: signature and data", <<>>)
    ELSE ValidateDecoded(v, kind, DecodeString(RawURLEncoding, tokenParts[1]),
                         DecodeString(RawURLEncoding, tokenParts[2]), t)

\* Validator.Validate; step 1: the token must not be empty.
Validate(v, kind, token, t) ==
    IF token = <<>> THEN Reject("empty token", <<>>)
    ELSE ValidateParts(v, kind, SplitN(token, Dot, 2), t)

---------------------------------------------------------------------------
(* pwd: Hasher and Validator.  base62 (dusted-go/encoding) and pbkdf2      *)
(* (golang.org/x/crypto) are outside the repository: DecodeToInt reads a   *)
(* number in the alphabet 0-9A-Za-z, and the key derivation is modelled by *)
(* a digest of password, salt and iteration count, cut to the key length.  *)

Base62Alphabet == Str("0123456789ABCDEFGHIJKLMNOPQRSTUVWXYZabcdefghijklmnopqrstuvwxyz")

\* base62.DecodeToInt, for strings over the alphabet
RECURSIVE DecodeToInt(_)
DecodeToInt(s) ==
    IF s = <<>> THEN 0
    ELSE 62 * DecodeToInt(SubSeq(s, 1, Len(s) - 1)) + IndexByte(Base62Alphabet, s[Len(s)]) - 1

\* pbkdf2.Key(password, salt, iter, keyLen, sha256.New)
Pbkdf2Key(password, salt, iter, keyLen) ==
    Squeeze(Absorb(Absorb(iter + 1 + 1009 * Len(password), password), salt), keyLen)

\* A (hashFunc, error) pair: the hashFunc is the closure over hashLength
\* and iterations.
NoHashFunc == [ok |-> FALSE, hashLength |-> 0, iterations |-> 0]

\* A createPbkdf2Fn that reads the third field as the iteration count and
\* the fourth as the hash length.
createPbkdf2FnIterationsFirst(strategy) ==
    LET args == SplitN(strategy, Slash, 4)
    IN  IF Len(args) # 4 THEN NoHashFunc
        ELSE IF args[2] # Str("hmacsha256") THEN NoHashFunc
        ELSE [ok |-> TRUE, hashLength |-> DecodeToInt(args[4]),
              iterations |-> DecodeToInt(args[3])]

createPbkdf2Fn(strategy) ==
    LET args == SplitN(strategy, Slash, 4)
    IN  IF Len(args) # 4 THEN NoHashFunc
        ELSE IF args[2] # Str("hmacsha256") THEN NoHashFunc
        ELSE [ok |-> TRUE, hashLength |-> DecodeToInt(args[3]),
              iterations |-> DecodeToInt(args[4])]

\* Calling the hashFunc.
computeHash(fn, password, salt) ==
    Pbkdf2Key(password, salt, fn.iterations, fn.hashLength)

\* The keys of supportedStrategies.
supportedStrategies == {Str("pbkdf2")}

createPasswordHashingStrategy(strategy) ==
    IF strategy = <<>> THEN NoHashFunc
    ELSE IF \E key \in supportedStrategies : HasPrefix(strategy, key)
         THEN createPbkdf2Fn(strategy)
         ELSE NoHashFunc

defaultStrategy == Str("pbkdf2/hmacsha256/12/G8")

\* passwordHash.String
String(pwdh) == pwdh.strategy \o <<Dot>> \o pwdh.base64Salt \o <<Dot>> \o pwdh.base64Hash

\* A nil *passwordHash.
NilHash == [salt |-> <<>>, hash |-> <<>>, strategy |-> <<>>,
            base64Salt |-> <<>>, base64Hash |-> <<>>, nil |-> TRUE]

ParsedHash(strategy, encSalt, encHash, salt, hash) ==
    [ok |-> salt.ok /\ hash.ok,
     pwdh |-> IF salt.ok /\ hash.ok
              THEN [salt |-> salt.bytes, hash |-> hash.bytes, strategy |-> strategy,
                    base64Salt |-> encSalt, base64Hash |-> encHash, nil |-> FALSE]
              ELSE NilHash]

parsePasswordHash(pwdh) ==
    LET actualParams == Split(pwdh, Dot)
    IN  IF pwdh = <<>> \/ Len(actualParams) # 3 THEN [ok |-> FALSE, pwdh |-> NilHash]
        ELSE ParsedHash(actualParams[1], actualParams[2], actualParams[3],
                        DecodeString(StdEncoding, actualParams[2]),
                        DecodeString(StdEncoding, actualParams[3]))

\* A newHasher that keeps the hasher whatever the factory returned.
newHasherUnchecked(strategy) ==
    [panic |-> FALSE,
     computeHash |-> createPasswordHashingStrategy(strategy),
     strategy |-> strategy]

\* newHasher(rng.GenerateBytes, createPasswordHashingStrategy, strategy)
newHasher(strategy) ==
    [panic |-> ~createPasswordHashingStrategy(strategy).ok,
     computeHash |-> createPasswordHashingStrategy(strategy),
     strategy |-> strategy]

\* Hasher.computePasswordHash; r is the draw of the random source.
SaltLength == 32

SaltedHash(h, salt, hash) ==
    [salt |-> salt, hash |-> hash, strategy |-> h.strategy,
     base64Salt |-> EncodeToString(StdEncoding, salt),
     base64Hash |-> EncodeToString(StdEncoding, hash), nil |-> FALSE]

\* A computePasswordHash that stores another salt than it hashed with.
computePasswordHashOtherSalt(h, password, r) ==
    SaltedHash(h, GenerateBytes(SaltLength, r + 1),
               computeHash(h.computeHash, password, GenerateBytes(SaltLength, r)))

computePasswordHash(h, password, r) ==
    SaltedHash(h, GenerateBytes(SaltLength, r),
               computeHash(h.computeHash, password, GenerateBytes(SaltLength, r)))

\* Hasher.ComputeHash
ComputeHash(h, password, r) == String(computePasswordHash(h, password, r))

\* newValidator(parsePasswordHash, createPasswordHashingStrategy, defaultStrategy)
newValidator(default) == [defaultStrategy |-> default]

PasswordResult(ok, needsUpgrade, calls) ==
    [ok |-> ok, needsUpgrade |-> needsUpgrade, calls |-> calls]


\* A comparison that asks for an upgrade whether the hashes match or not.
CompareHashesUpgradeAny(v, pwdh, computedHash) ==
    PasswordResult(Hashes(pwdh.hash, computedHash),
                   pwdh.strategy # v.defaultStrategy,
                   <<"computeHashFactory", "computeHash", "compare.Hashes">>)

CompareHashes(v, pwdh, computedHash) ==
    PasswordResult(Hashes(pwdh.hash, computedHash),
                   Hashes(pwdh.hash, computedHash) /\ pwdh.strategy # v.defaultStrategy,
                   <<"computeHashFactory", "computeHash", "compare.Hashes">>)

\* A validatePassword that resolves the strategy before it looks at the
\* password.
validatePasswordFactoryFirst(v, p, pwdh) ==
    IF pwdh.nil THEN PasswordResult(FALSE, FALSE, <<>>)
    ELSE IF ~createPasswordHashingStrategy(pwdh.strategy).ok \/ p = <<>>
         THEN PasswordResult(FALSE, FALSE, <<"computeHashFactory">>)
         ELSE CompareHashes(v, pwdh,
                  computeHash(createPasswordHashingStrategy(pwdh.strategy), p, pwdh.salt))

\* A validatePassword that drops the error of the strategy factory.
validatePasswordIgnoringError(v, p, pwdh) ==
    IF p = <<>> \/ pwdh.nil THEN PasswordResult(FALSE, FALSE, <<>>)
    ELSE CompareHashes(v, pwdh,
             computeHash(createPasswordHashingStrategy(pwdh.strategy), p, pwdh.salt))

\* A validatePassword that hashes with the validator's default strategy.
validatePasswordByDefault(v, p, pwdh) ==
    IF p = <<>> \/ pwdh.nil THEN PasswordResult(FALSE, FALSE, <<>>)
    ELSE IF ~createPasswordHashingStrategy(v.defaultStrategy).ok
         THEN PasswordResult(FALSE, FALSE, <<"computeHashFactory">>)
         ELSE CompareHashes(v, pwdh,
                  computeHash(createPasswordHashingStrategy(v.defaultStrategy), p, pwdh.salt))

\* Validator.validatePassword
validatePassword(v, p, pwdh) ==
    IF p = <<>> \/ pwdh.nil THEN PasswordResult(FALSE, FALSE, <<>>)
    ELSE IF ~createPasswordHashingStrategy(pwdh.strategy).ok
         THEN PasswordResult(FALSE, FALSE, <<"computeHashFactory">>)
         ELSE CompareHashes(v, pwdh,
                  computeHash(createPasswordHashingStrategy(pwdh.strategy), p, pwdh.salt))

\* Validator.ValidatePassword
ValidatePassword(v, password, passwordHash) ==
    IF ~parsePasswordHash(passwordHash).ok THEN PasswordResult(FALSE, FALSE, <<>>)
    ELSE validatePassword(v, password, parsePasswordHash(passwordHash).pwdh)

---------------------------------------------------------------------------
(* pwd: the password policy                                               *)

\* A Go string is a sequence of bytes; a rune is written in UTF-8.
EncodeRune(r) ==
    IF r < 128 THEN <<r>>
    ELSE IF r < 2048 THEN <<192 + (r \div 64), 128 + (r % 64)>>
    ELSE IF r < 65536
         THEN <<224 + (r \div 4096), 128 + ((r \div 64) % 64), 128 + (r % 64)>>
         ELSE <<240 + (r \div 262144), 128 + ((r \div 4096) % 64),
                128 + ((r \div 64) % 64), 128 + (r % 64)>>

RECURSIVE EncodeRunes(_)
EncodeRunes(rs) ==
    IF rs = <<>> THEN <<>> ELSE EncodeRune(Head(rs)) \o EncodeRunes(Tail(rs))

\* The byte at i is a continuation byte.
Continuation(s, i) == i <= Len(s) /\ s[i] \in 128..191

\* The second byte that may follow the lead byte b.
SecondByte(b) ==
    CASE b = 224 -> 160..191
      [] b = 237 -> 128..159
      [] b = 240 -> 144..191
      [] b = 244 -> 128..143
      [] OTHER -> 128..191

\* The rune that "for _, r := range password" reads at byte i, and its
\* width; a byte that starts no valid encoding is read as utf8.RuneError
\* (U+FFFD) of width 1.
DecodeRuneAt(s, i) ==
    IF s[i] < 128 THEN [r |-> s[i], size |-> 1]
    ELSE IF s[i] \in 194..223 /\ Continuation(s, i + 1)
    THEN [r |-> (s[i] - 192) * 64 + (s[i + 1] - 128), size |-> 2]
    ELSE IF /\ s[i] \in 224..239
            /\ i + 1 <= Len(s) /\ s[i + 1] \in SecondByte(s[i])
            /\ Continuation(s, i + 2)
    THEN [r |-> (s[i] - 224) * 4096 + (s[i + 1] - 128) * 64 + (s[i + 2] - 128),
          size |-> 3]
    ELSE IF /\ s[i] \in 240..244
            /\ i + 1 <= Len(s) /\ s[i + 1] \in SecondByte(s[i])
            /\ Continuation(s, i + 2) /\ Continuation(s, i + 3)
    THEN [r |-> (s[i] - 240) * 262144 + (s[i + 1] - 128) * 4096
                + (s[i + 2] - 128) * 64 + (s[i + 3] - 128),
          size |-> 4]
    ELSE [r |-> 65533, size |-> 1]

\* unicode.IsUpper and unicode.IsLower for the runes up to U+00FF (with
\* IsDigit above for unicode.IsDigit); no other rune of the model is a
\* letter or a digit.
IsUpper(r) == r \in 65..90 \/ r \in 192..214 \/ r \in 216..222
IsLower(r) == r \in 97..122 \/ r = 181 \/ r \in 223..246 \/ r \in 248..255

\* The runes of the string special in SpecialCharCheck.
special ==
    {33, 64, 163, 36, 37, 94, 38, 42, 40, 41, 95, 45, 43, 61, 123, 125, 91, 93,
     8364, 35, 58, 59, 34, 39, 124, 92, 63, 47, 60, 62, 44, 46, 126, 96, 167, 177}

\* The matchFunc of a count check.
match(class, r) ==
    CASE class = "IsUpper" -> IsUpper(r)
      [] class = "IsLower" -> IsLower(r)
      [] class = "IsDigit" -> IsDigit(r)
      [] class = "special" -> r \in special

\* The loop of genericValidateFunc from byte i on: the number of runes
\* that match.
RECURSIVE CountMatches(_, _, _, _)
CountMatches(class, password, i, count) ==
    IF i > Len(password) THEN count
    ELSE CountMatches(class, password, i + DecodeRuneAt(password, i).size,
                      IF match(class, DecodeRuneAt(password, i).r)
                      THEN count + 1 ELSE count)

\* The validateFunc that genericValidateFunc(match, minCount, group)
\* returns, and the same for the five checks.
genericValidateFunc(class, minCount, group) ==
    [check |-> "count", class |-> class, min |-> minCount, group |-> group]

UpperCaseCheck(minCount) ==
    genericValidateFunc("IsUpper", minCount,
                        IF minCount > 1 THEN "uppercase letters" ELSE "uppercase letter")
LowerCaseCheck(minCount) ==
    genericValidateFunc("IsLower", minCount,
                        IF minCount > 1 THEN "lowercase letters" ELSE "lowercase letter")
DigitsCheck(minCount) ==
    genericValidateFunc("IsDigit", minCount,
                        IF minCount > 1 THEN "digits" ELSE "digit")
SpecialCharCheck(minCount) ==
    genericValidateFunc("special", minCount,
                        IF minCount > 1 THEN "special characters" ELSE "special character")
LengthCheck(minLength) ==
    [check |-> "length", class |-> "", min |-> minLength, group |-> ""]

\* Calling a validateFunc: (ok, errMsg).
CallCheck(f, password) ==
    IF f.check = "length"
    THEN IF Len(password) < f.min
         THEN [ok |-> FALSE,
               errMsg |-> "password does not meet the minimum length of "
                          \o ToString(f.min) \o " characters"]
         ELSE [ok |-> TRUE, errMsg |-> ""]
    ELSE IF CountMatches(f.class, password, 1, 0) < f.min
         THEN [ok |-> FALSE,
               errMsg |-> "password must have at least " \o ToString(f.min)
                          \o " " \o f.group]
         ELSE [ok |-> TRUE, errMsg |-> ""]

\* The loop of the PolicyFunc from the check i on.
RECURSIVE PolicyLoop(_, _, _, _)
PolicyLoop(funcs, password, i, errMsgs) ==
    IF i > Len(funcs) THEN errMsgs
    ELSE PolicyLoop(funcs, password, i + 1,
                    IF ~CallCheck(funcs[i], password).ok
                    THEN Append(errMsgs, CallCheck(funcs[i], password).errMsg)
                    ELSE errMsgs)

\* Policy(funcs...)(password)
Policy(funcs, password) ==
    [ok |-> Len(PolicyLoop(funcs, password, 1, <<>>)) = 0,
     errMsgs |-> PolicyLoop(funcs, password, 1, <<>>)]

---------------------------------------------------------------------------
(* The services and their callers                                         *)

\* Bounds of the model.
MaxTicks == 3       \* the clock advances at most this many ticks
MaxTTL == 2         \* the longest ttl, in ticks

EncryptionKey == GenerateBytes(32, 7)
SigningKey == Str("some-stupid-secret-key")

\* The generators in use: one with a 32-byte key, one misconfigured.
Generators == {NewGenerator(EncryptionKey, SigningKey), NewGenerator(GenerateBytes(15, 7), SigningKey)}

\* The validator, holding the keys of the first generator.
TheValidator == NewValidator(EncryptionKey, SigningKey)

KindA == Str("a")
Kinds == {KindA, Str("b"), Str("a.b")}
Payloads == {<<>>, <<46, 0, 255>>}
Seeds == 0..(MaxSeed - 1)

\* Where the clock may stand at the start: an ordinary day, and the last
\* seconds of the year 9999.
ClockStarts == {Date(2026, 11, 5, 12, 0, 0), Date(9999, 12, 31, 23, 59, 58)}

\* The ticks since the start of the clock.
Elapsed(t) == Sub(t, CHOOSE s \in ClockStarts : t.day - s.day \in {0, 1})

\* The wire token of a forger who holds the signing key: a valid signature
\* over any bytes in place of the ciphertext.
Forge(signingKey, cipher) ==
    EncodeToString(RawURLEncoding, ComputeSHA256(signingKey, cipher)) \o <<Dot>>
    \o EncodeToString(RawURLEncoding, cipher)

\* Plaintext records that Generate does not write.
RecordPrefixes == {Str("a.e."), Str("a.e*."), Str("b.eA."), Str("a.eA.")}
RecordsWithoutExpiry == {Str("a"), Str("a.eA"), Str("a.eA.never")}

CraftedRecords(t) ==
    RecordsWithoutExpiry
    \cup {prefix \o FormatRFC3339(t) : prefix \in RecordPrefixes}
    \cup {Str("a.eA.") \o FormatRFC3339(Add(t, -TicksPerSecond))}

\* Byte strings a forger signs in place of a ciphertext: too short for an
\* IV, an IV alone, not whole blocks, blocks that decrypt to any padding
\* byte, and the encryptions of the crafted records.
ForgedCiphers(t) ==
    {GenerateBytes(n, 1) : n \in {0, 15, 16, 17, 40}}
    \cup {GenerateBytes(BlockSize, 1) \o EncryptBlock(EncryptionKey, XorBytes(GenerateBytes(BlockSize, 1), Repeat(0, BlockSize - 1) \o <<last>>))
          : last \in {0, 1, 2, 16, 17, 200}}
    \cup {Encrypt(EncryptionKey, rec, 1).bytes : rec \in CraftedRecords(t)}

\* Wire tokens that are no signature over a ciphertext.
MalformedTokens ==
    {<<>>, Str("e30"), Str("e*.e30"), Str("e30.e*"), Str("e30.e30"), Str("e30.e30.e30"), Str(".")}

\* The wire token with bit `bit` of its character i inverted.
Tamper(token, i, bit) == [token EXCEPT ![i] = FlipBit(@, bit)]

\* The characters of a wire token that the model tampers with: the first
\* and the last of the signature segment and of the ciphertext segment.
TamperPositions(token) ==
    LET dot == IndexByte(token, Dot)
    IN  {1, dot - 1, dot + 1, Len(token)}

\* The strategies the hashers and validators are configured with: the
\* default, an older one, one named with a '.', one with a hash length
\* of 0.
OldStrategy == Str("pbkdf2/hmacsha256/A/9")
Strategies ==
    {defaultStrategy, OldStrategy, Str("pbkdf2.v2/hmacsha256/A/9"),
     Str("pbkdf2/hmacsha256/0/1")}

\* The hashers that callers construct, the ones whose construction panics
\* included: besides the strategies above, one whose family merely starts
\* with a registered one, and ones the factory does not resolve.
Hashers ==
    {newHasher(s) : s \in Strategies
                        \cup {Str("pbkdf2x/hmacsha256/A/9")}
                        \cup {<<>>, Str("unknown"), Str("bcrypt/hmacsha256/A/9"),
                              Str("pbkdf2/md5/A/9"), Str("pbkdf2/hmacsha256/A")}}
Validators == {newValidator(s) : s \in Strategies}
Passwords == {<<>>, Str("Just4Now!2019"), Str("wrong-PassWord")}

\* Stored strings that no Hasher of the model wrote.
OtherHashes ==
    {<<>>,
     Str("pbkdf2/hmacsha256/A/9"),
     Str("pbkdf2/hmacsha256/A/9.AAAA"),
     Str("pbkdf2/hmacsha256/A/9.AAAA.AAAA.AAAA"),
     Str("pbkdf2/hmacsha256/A/9.A*.AAAA"),
     Str("pbkdf2/hmacsha256/A/9.AAAA.A*"),
     Str("pbkdf2/hmacsha256/A/9.AAAA.AAAA"),
     Str("pbkdf2/hmacsha256/A.AAAA.AAAA"),
     Str("pbkdf2/md5/A/9.AAAA.AAAA"),
     Str("bcrypt/hmacsha256/A/9.AAAA.AAAA"),
     Str("bcrypt/hmacsha256/0/1.AAAA."),
     Str("pbkdf2/hmacsha256/0/1.AAAA.")}

\* The instances that concurrent callers share, as constructed, and the
\* package-level variables.
Constructed ==
    [generator |-> NewGenerator(EncryptionKey, SigningKey),
     validator |-> TheValidator,
     hasher |-> newHasher(OldStrategy),
     pwdValidator |-> newValidator(defaultStrategy),
     defaultStrategy |-> defaultStrategy,
     supportedStrategies |-> supportedStrategies]

Threads == {"t1", "t2"}
IdleThread == [pc |-> "idle", c |-> <<>>, result |-> <<>>]

\* A token and a hash that the callers validate.
SharedToken == Generate(Constructed.generator, KindA, <<>>, MaxTTL, Date(2026, 11, 5, 12, 0, 0), 0).token
SharedHash == ComputeHash(Constructed.hasher, Str("Just4Now!2019"), 0)

\* The calls a caller makes at the clock reading t.
Calls(t) ==
    {[op |-> "Generate", kind |-> KindA, data |-> data, ttl |-> MaxTTL, at |-> t, r |-> r]
       : data \in Payloads, r \in Seeds}
    \cup {[op |-> "Validate", kind |-> kind, token |-> SharedToken, at |-> t]
            : kind \in {KindA, Str("b")}}
    \cup {[op |-> "ComputeHash", password |-> Str("Just4Now!2019"), r |-> r] : r \in Seeds}
    \cup {[op |-> "ValidatePassword", password |-> p, hash |-> SharedHash] : p \in Passwords}

\* What the call c returns on the instances sh.
RunCall(sh, c) ==
    CASE c.op = "Generate" -> Generate(sh.generator, c.kind, c.data, c.ttl, c.at, c.r)
      [] c.op = "Validate" -> Validate(sh.validator, c.kind, c.token, c.at)
      [] c.op = "ComputeHash" -> ComputeHash(sh.hasher, c.password, c.r)
      [] c.op = "ValidatePassword" -> ValidatePassword(sh.pwdValidator, c.password, c.hash)

\* A ValidatePassword that takes the stored strategy for the new default.
FieldsAfterAdoptingStrategy(sh, c) ==
    IF c.op = "ValidatePassword" /\ parsePasswordHash(c.hash).ok
    THEN [sh EXCEPT !.pwdValidator = newValidator(parsePasswordHash(c.hash).pwdh.strategy)]
    ELSE sh

\* The instances and the package state after the call c: no method
\* assigns to a field or to a package-level variable.
FieldsAfter(sh, c) == sh


NoToken == <<>>
NoResult == <<>>
NoHash == <<>>

\* No call is in progress or returning.
Idle == vres = NoResult /\ pres = NoResult /\ call = NoResult

\* What a caller of Validate(kind, token) at the clock reading `now` gets.
Outcome(src, kind, token) ==
    LET r == Validate(TheValidator, kind, token, now)
    IN  [src |-> src, kind |-> kind, token |-> token, at |-> now,
         data |-> r.data, err |-> r.err, panic |-> r.panic, calls |-> r.calls]

Init ==
    /\ now \in ClockStarts
    /\ issued = NoToken
    /\ vres = NoResult
    /\ stored = NoHash
    /\ pres = NoResult
    /\ call = NoResult
    /\ shared = Constructed
    /\ threads = [t \in Threads |-> IdleThread]

\* The clock advances by one tick.
Tick ==
    /\ Idle
    /\ Elapsed(now) < MaxTicks
    /\ now' = Add(now, 1)
    /\ UNCHANGED <<issued, vres, stored, pres, call, shared, threads>>

\* A caller has a generator issue a token.
DoGenerate ==
    /\ Idle
    /\ issued = NoToken
    /\ \E g \in Generators, kind \in Kinds, data \in Payloads, ttl \in 0..MaxTTL, r \in Seeds :
          LET out == Generate(g, kind, data, ttl, now, r)
          IN  issued' = <<[g |-> g, kind |-> kind, data |-> data, ttl |-> ttl, at |-> now,
                           token |-> out.token, err |-> out.err]>>
    /\ UNCHANGED <<now, vres, stored, pres, call, shared, threads>>

\* A caller validates the issued token, for any kind.
ValidateIssued ==
    /\ Idle
    /\ issued # NoToken
    /\ issued[1].err = Nil
    /\ \E kind \in Kinds : vres' = <<Outcome("issued", kind, issued[1].token)>>
    /\ UNCHANGED <<now, issued, stored, pres, call, shared, threads>>

\* A caller validates the issued token with one bit of it inverted.
ValidateTampered ==
    /\ Idle
    /\ issued # NoToken
    /\ issued[1].err = Nil
    /\ \E i \in TamperPositions(issued[1].token), bit \in 0..7 :
          vres' = <<Outcome("tampered", issued[1].kind, Tamper(issued[1].token, i, bit))>>
    /\ UNCHANGED <<now, issued, stored, pres, call, shared, threads>>

\* A caller validates a token that was signed with the signing key but not
\* made by Generate.  (What Validate returns does not depend on `issued`;
\* the model tries these tokens before one is issued.)
ValidateForged ==
    /\ Idle
    /\ issued = NoToken
    /\ \E cipher \in ForgedCiphers(now) :
          vres' = <<Outcome("forged", KindA, Forge(SigningKey, cipher))>>
    /\ UNCHANGED <<now, issued, stored, pres, call, shared, threads>>

\* A caller validates a string that is no token.
ValidateMalformed ==
    /\ Idle
    /\ issued = NoToken
    /\ \E token \in MalformedTokens : vres' = <<Outcome("malformed", KindA, token)>>
    /\ UNCHANGED <<now, issued, stored, pres, call, shared, threads>>

\* What a caller of v.ValidatePassword(password, hash) gets.
PasswordOutcome(src, v, password, hash) ==
    LET r == ValidatePassword(v, password, hash)
    IN  [src |-> src, v |-> v, password |-> password, hash |-> hash,
         ok |-> r.ok, needsUpgrade |-> r.needsUpgrade, calls |-> r.calls]

\* A caller constructs a hasher, has it hash a password and stores the
\* string; when newHasher panics there is no hasher and no string.
DoComputeHash ==
    /\ Idle
    /\ stored = NoHash
    /\ \E h \in Hashers, p \in Passwords, r \in Seeds :
          stored' = <<[h |-> h, password |-> p,
                       hash |-> IF h.panic THEN <<>> ELSE ComputeHash(h, p, r)]>>
    /\ UNCHANGED <<now, issued, vres, pres, call, shared, threads>>

\* A caller validates a password against the stored string.
DoValidatePassword ==
    /\ Idle
    /\ stored # NoHash
    /\ ~stored[1].h.panic
    /\ \E v \in Validators, p \in Passwords :
          pres' = <<PasswordOutcome("stored", v, p, stored[1].hash)>>
    /\ UNCHANGED <<now, issued, vres, stored, call, shared, threads>>

\* A caller validates a password against a string from elsewhere.
ValidateOtherHash ==
    /\ Idle
    /\ stored = NoHash
    /\ \E v \in Validators, p \in Passwords, hash \in OtherHashes :
          pres' = <<PasswordOutcome("other", v, p, hash)>>
    /\ UNCHANGED <<now, issued, vres, stored, call, shared, threads>>

\* The inputs of the library functions.
MaxDataLen == 3     \* the longest data that is padded, unpadded or compared

RECURSIVE DataOfLen(_)
DataOfLen(n) ==
    IF n = 0 THEN {<<>>}
    ELSE {Append(d, b) : d \in DataOfLen(n - 1), b \in {0, 1, 2, 3}}

Data == UNION {DataOfLen(n) : n \in 0..MaxDataLen}

\* The hashes that are compared: of every length, over two bytes.
HashData == {d \in Data : \A i \in 1..Len(d) : d[i] \in {0, 1}}

\* A caller pads data, with a block size that is small, the cipher's, or
\* around the largest number a byte holds.
DoPad ==
    /\ Idle
    /\ \E data \in Data, n \in {1, 2, 3, BlockSize, 255, 256, 300} :
          call' = <<[fn |-> "pkcs7.Pad", data |-> data, blockSize |-> n,
                     out |-> Pad(data, n)]>>
    /\ UNCHANGED <<now, issued, vres, stored, pres, shared, threads>>

\* A caller unpads data.
DoUnpad ==
    /\ Idle
    /\ \E data \in Data, n \in {1, 2, 3} :
          call' = <<[fn |-> "pkcs7.Unpad", data |-> data, blockSize |-> n,
                     out |-> Unpad(data, n)]>>
    /\ UNCHANGED <<now, issued, vres, stored, pres, shared, threads>>

\* A caller compares two hashes.
DoHashes ==
    /\ Idle
    /\ \E hash1 \in HashData, hash2 \in HashData :
          call' = <<[fn |-> "compare.Hashes", hash1 |-> hash1, hash2 |-> hash2,
                     out |-> HashesRun(hash1, hash2), equal |-> Hashes(hash1, hash2)]>>
    /\ UNCHANGED <<now, issued, vres, stored, pres, shared, threads>>

\* A caller has a generator with a key of any length issue a token.
DoGenerateWithKey ==
    /\ Idle
    /\ \E n \in {0, 15, 16, 17, 24, 31, 32, 33}, data \in Payloads, r \in Seeds :
          call' = <<[fn |-> "token.Generate", key |-> GenerateBytes(n, 7),
                     out |-> Generate(NewGenerator(GenerateBytes(n, 7), SigningKey),
                                      KindA, data, MaxTTL, now, r)]>>
    /\ UNCHANGED <<now, issued, vres, stored, pres, shared, threads>>

\* A caller enters a method of a shared instance.
Enter(t) ==
    /\ threads[t].pc = "idle"
    /\ \E c \in Calls(now) :
          threads' = [threads EXCEPT ![t] = [pc |-> "running", c |-> c, result |-> <<>>]]
    /\ UNCHANGED <<now, issued, vres, stored, pres, call, shared>>

\* The method runs on the instances as they are now, and returns.
Run(t) ==
    /\ threads[t].pc = "running"
    /\ threads' = [threads EXCEPT ![t] = [pc |-> "returned", c |-> threads[t].c,
                                          result |-> RunCall(shared, threads[t].c)]]
    /\ shared' = FieldsAfter(shared, threads[t].c)
    /\ UNCHANGED <<now, issued, vres, stored, pres, call>>

\* The caller takes the result.
Leave(t) ==
    /\ threads[t].pc = "returned"
    /\ threads' = [threads EXCEPT ![t] = IdleThread]
    /\ UNCHANGED <<now, issued, vres, stored, pres, call, shared>>

\* The caller takes the result of the call that returned.
Return ==
    /\ ~Idle
    /\ vres' = NoResult
    /\ pres' = NoResult
    /\ call' = NoResult
    /\ UNCHANGED <<now, issued, stored, shared, threads>>

\* The inputs of the password policy: passwords of the runes A, a, 1, !,
\* U+00A3 and U+20AC (of one, two and three bytes), two byte strings
\* that are no UTF-8, and policies of the five checks.
MaxPasswordRunes == 2    \* the longest password, in runes
MaxMinCount == 2         \* the largest minimum a check is built with
RECURSIVE RunesOfLen(_)
RunesOfLen(n) ==
    IF n = 0 THEN {<<>>}
    ELSE {Append(rs, r) : rs \in RunesOfLen(n - 1), r \in {65, 97, 49, 33, 163, 8364}}

PolicyPasswords ==
    {EncodeRunes(rs) : rs \in UNION {RunesOfLen(n) : n \in 0..MaxPasswordRunes}}
    \cup {<<255>>, <<194>>}

Policies ==
    {<<>>}
    \cup UNION {{<<LengthCheck(m)>>, <<UpperCaseCheck(m)>>, <<LowerCaseCheck(m)>>,
                 <<DigitsCheck(m)>>, <<SpecialCharCheck(m)>>} : m \in 0..MaxMinCount}
    \cup {<<LengthCheck(m + 1), UpperCaseCheck(m), LowerCaseCheck(m),
            DigitsCheck(m), SpecialCharCheck(m)>> : m \in 0..MaxMinCount}
    \cup {<<SpecialCharCheck(m), DigitsCheck(m), LengthCheck(m)>> : m \in 1..MaxMinCount}
    \cup {<<LengthCheck(m), LengthCheck(m)>> : m \in 1..MaxMinCount}

\* A caller builds a policy and checks a password with it.
DoPolicy ==
    /\ Idle
    /\ \E funcs \in Policies, password \in PolicyPasswords :
          call' = <<[fn |-> "pwd.Policy", funcs |-> funcs, password |-> password,
                     out |-> Policy(funcs, password)]>>
    /\ UNCHANGED <<now, issued, vres, stored, pres, shared, threads>>

TokenNext ==
    \/ Tick
    \/ DoGenerate
    \/ ValidateIssued
    \/ ValidateTampered
    \/ ValidateForged
    \/ ValidateMalformed
    \/ Return

TokenSpec == Init /\ [][TokenNext]_vars

PwdNext ==
    \/ DoComputeHash
    \/ DoValidatePassword
    \/ ValidateOtherHash
    \/ Return

PwdSpec == Init /\ [][PwdNext]_vars

LibNext ==
    \/ DoPad
    \/ DoUnpad
    \/ DoHashes
    \/ DoGenerateWithKey
    \/ Return

LibSpec == Init /\ [][LibNext]_vars

ConcNext == \E t \in Threads : Enter(t) \/ Run(t) \/ Leave(t)

ConcSpec == Init /\ [][ConcNext]_vars

PolicyNext ==
    \/ DoPolicy
    \/ Return

PolicySpec == Init /\ [][PolicyNext]_vars

Next ==
    \/ Tick
    \/ DoGenerate
    \/ ValidateIssued
    \/ ValidateTampered
    \/ ValidateForged
    \/ ValidateMalformed
    \/ DoComputeHash
    \/ DoValidatePassword
    \/ ValidateOtherHash
    \/ DoPad
    \/ DoUnpad
    \/ DoHashes
    \/ DoGenerateWithKey
    \/ DoPolicy
    \/ \E t \in Threads : Enter(t) \/ Run(t) \/ Leave(t)
    \/ Return

Spec == Init /\ [][Next]_vars

---------------------------------------------------------------------------
(* Properties of the token service                                         *)

\* The call that is returning, and the token that was issued.
Returning(src) == vres # NoResult /\ vres[1].src = src

Accepted(r) == r.err = Nil /\ ~r.panic
Rejected(r) == r.err # Nil /\ ~r.panic /\ r.data = <<>>

HasDot(kind) == IndexByte(kind, Dot) # 0

\* The instant t without its sub-second component.
TruncateToSecond(t) == [day |-> t.day, tod |-> t.tod - (t.tod % TicksPerSecond)]

\* generator clock + ttl of the issued token, and the expiry the token's
\* record carries.
ExpiryInstant(tok) == Add(tok.at, tok.ttl)
WrittenExpiry(tok) == TruncateToSecond(ExpiryInstant(tok))

\* RFC 3339 has four digits for the year.
FourDigitYear(t) == CivilFromDays(t.day).year <= 9999

\* C1, as claimed: a token validated for its own kind no later than
\* generator clock + ttl, ttl > 0, comes back with exactly its payload.
C1_RoundTripAsClaimed ==
    (Returning("issued") /\ vres[1].kind = issued[1].kind /\ issued[1].ttl > 0
     /\ ~After(vres[1].at, ExpiryInstant(issued[1])))
    => (Accepted(vres[1]) /\ vres[1].data = issued[1].data)

\* C1, amended: for a kind without '.', a ttl > 0 and an expiry of a year
\* up to 9999, a token validated for its own kind no later than generator
\* clock + ttl cut to the whole second comes back with exactly its payload.
C1_RoundTrip ==
    (Returning("issued") /\ vres[1].kind = issued[1].kind /\ issued[1].ttl > 0
     /\ ~HasDot(issued[1].kind) /\ FourDigitYear(ExpiryInstant(issued[1]))
     /\ ~After(vres[1].at, WrittenExpiry(issued[1])))
    => (Accepted(vres[1]) /\ vres[1].data = issued[1].data)

\* C1's case: a payload with '.' and non-text bytes, issued at a clock
\* reading with a sub-second component, validated in time and returned.
C1_Witness ==
    /\ Returning("issued")
    /\ vres[1].kind = issued[1].kind /\ issued[1].ttl > 0 /\ ~HasDot(issued[1].kind)
    /\ issued[1].at.tod % TicksPerSecond # 0
    /\ ~After(vres[1].at, WrittenExpiry(issued[1]))
    /\ vres[1].data = <<46, 0, 255>>

\* The signature segment of the wire token equals the MAC of its
\* ciphertext segment.
SignatureMatches(token) ==
    LET parts == SplitN(token, Dot, 2)
    IN  /\ Len(parts) = 2
        /\ DecodeString(RawURLEncoding, parts[1]).ok
        /\ DecodeString(RawURLEncoding, parts[2]).ok
        /\ DecodeString(RawURLEncoding, parts[1]).bytes
           = ComputeSHA256(SigningKey, DecodeString(RawURLEncoding, parts[2]).bytes)

\* C2: in every call of Validate, aes.Decrypt (and every later step) comes
\* only after sig.ValidateSHA256 returned true for the same ciphertext, and
\* a token whose signature does not match is rejected with no call but
\* the signature check.
C2_SignatureBeforeDecrypt ==
    vres # NoResult =>
        LET c == vres[1].calls
        IN  /\ \A i \in 1..Len(c) :
                  c[i].fn # "sig.ValidateSHA256" =>
                      /\ i > 1
                      /\ c[1].fn = "sig.ValidateSHA256" /\ c[1].ret
                      /\ (c[i].fn = "aes.Decrypt" => c[1].arg = c[i].arg)
            /\ ~SignatureMatches(vres[1].token) =>
                  /\ Rejected(vres[1])
                  /\ \A i \in 1..Len(c) : c[i].fn = "sig.ValidateSHA256" /\ ~c[i].ret

\* C2's case: a well-formed token with a wrong signature was rejected after
\* the signature check alone.
C2_Witness ==
    /\ Returning("tampered")
    /\ ~SignatureMatches(vres[1].token)
    /\ Len(vres[1].calls) = 1
    /\ vres[1].err = "signature does not match data"

\* C3, as claimed: every rejection returns the same error, the one the
\* empty token is rejected with.
C3_UniformError ==
    (vres # NoResult /\ vres[1].err # Nil)
    => vres[1].err = Validate(TheValidator, vres[1].kind, <<>>, now).err

\* C4: a token issued for one kind and validated for another is rejected,
\* though its signature verified and its decryption succeeded.
C4_KindBinding ==
    (Returning("issued") /\ vres[1].kind # issued[1].kind)
    => /\ Rejected(vres[1])
       /\ Len(vres[1].calls) >= 2
       /\ vres[1].calls[1] = Call("sig.ValidateSHA256", vres[1].calls[1].arg, TRUE)
       /\ vres[1].calls[2] = Call("aes.Decrypt", vres[1].calls[1].arg, TRUE)

\* C4's case: the token was issued for kind "a.b" and validated for "a".
C4_Witness ==
    /\ Returning("issued")
    /\ issued[1].kind = Str("a.b") /\ vres[1].kind = KindA
    /\ Rejected(vres[1])

\* The premise C5 is about: the issued token validated for its own kind,
\* which has no '.', with an expiry of a year up to 9999.
C5_Case ==
    /\ Returning("issued")
    /\ vres[1].kind = issued[1].kind /\ ~HasDot(issued[1].kind)
    /\ FourDigitYear(ExpiryInstant(issued[1]))

\* C5, as claimed: with expiry = generator clock + ttl, accepted at every
\* instant up to and including expiry, rejected one second after it or
\* later.
C5_ExpiryBoundaryAsClaimed ==
    C5_Case =>
        /\ ~After(vres[1].at, ExpiryInstant(issued[1])) => Accepted(vres[1])
        /\ ~After(Add(ExpiryInstant(issued[1]), TicksPerSecond), vres[1].at)
           => Rejected(vres[1])

\* C5, amended: with expiry = generator clock + ttl cut to the whole
\* second, accepted at every instant up to and including expiry and
\* rejected at every later instant.
C5_ExpiryBoundary ==
    C5_Case =>
        /\ ~After(vres[1].at, WrittenExpiry(issued[1])) => Accepted(vres[1])
        /\ After(vres[1].at, WrittenExpiry(issued[1])) => Rejected(vres[1])

\* C5's case: issued at a clock reading with a sub-second component and
\* accepted at exactly the expiry the token carries.
C5_Witness ==
    /\ C5_Case
    /\ issued[1].at.tod % TicksPerSecond # 0
    /\ vres[1].at = WrittenExpiry(issued[1])
    /\ Accepted(vres[1])

\* C6, as claimed: the issued token with one bit of a character of either
\* segment inverted is rejected.
C6_TamperRejected == Returning("tampered") => Rejected(vres[1])

\* C7, as claimed: Validate returns, a payload or an error, for every
\* wire token; it never panics.
C7_NeverPanics == vres # NoResult => ~vres[1].panic

---------------------------------------------------------------------------
(* Properties of the password service                                      *)

ReturningPassword(src) == pres # NoResult /\ pres[1].src = src

\* The premise of C8: the stored string was written by a hasher with the
\* validator's default strategy, for the password now validated.
C8_Case ==
    /\ ReturningPassword("stored")
    /\ pres[1].v.defaultStrategy = stored[1].h.strategy
    /\ pres[1].password = stored[1].password

\* C8, as claimed: for every password, the empty one included, and a
\* hasher with the validator's default strategy,
\* ValidatePassword(p, ComputeHash(p)) = (true, false).
C8_RoundTripAsClaimed == C8_Case => (pres[1].ok /\ ~pres[1].needsUpgrade)

\* C8, amended: for every password but the empty one and a hasher with the
\* validator's default strategy, a strategy without '.',
\* ValidatePassword(p, ComputeHash(p)) = (true, false).
C8_RoundTrip ==
    (C8_Case /\ pres[1].password # <<>> /\ ~HasDot(stored[1].h.strategy))
    => (pres[1].ok /\ ~pres[1].needsUpgrade)

\* C8's case: a password hashed under the default strategy and validated.
C8_Witness ==
    /\ C8_Case
    /\ pres[1].password = Str("Just4Now!2019")
    /\ stored[1].h.strategy = defaultStrategy
    /\ pres[1].ok

\* C9: needsUpgrade = (matches and the stored strategy is not the
\* validator's default), for every password and stored string.
C9_UpgradeSignal ==
    pres # NoResult =>
        (pres[1].needsUpgrade
         <=> (pres[1].ok
              /\ parsePasswordHash(pres[1].hash).pwdh.strategy # pres[1].v.defaultStrategy))

\* C9's case: a match under a strategy that is not the default gave
\* (true, true).
C9_Witness ==
    /\ ReturningPassword("stored")
    /\ stored[1].h.strategy = OldStrategy
    /\ pres[1].v.defaultStrategy = defaultStrategy
    /\ pres[1].ok /\ pres[1].needsUpgrade

\* C10: matches is computed with the KDF of the stored strategy and is the
\* same under every default strategy of the validator.
C10_StoredStrategyAuthoritative ==
    pres # NoResult =>
        /\ \A v \in Validators :
              ValidatePassword(v, pres[1].password, pres[1].hash).ok = pres[1].ok
        /\ pres[1].ok =>
              LET pwdh == parsePasswordHash(pres[1].hash).pwdh
              IN  /\ createPasswordHashingStrategy(pwdh.strategy).ok
                  /\ pwdh.hash = computeHash(createPasswordHashingStrategy(pwdh.strategy),
                                             pres[1].password, pwdh.salt)

\* C10's case: a match under a stored strategy that is not the validator's
\* default, where another default changes needsUpgrade alone.
C10_Witness ==
    /\ ReturningPassword("stored")
    /\ pres[1].ok /\ pres[1].needsUpgrade
    /\ \E v \in Validators :
          /\ v # pres[1].v
          /\ ValidatePassword(v, pres[1].password, pres[1].hash).ok
          /\ ~ValidatePassword(v, pres[1].password, pres[1].hash).needsUpgrade

\* A stored string that is no hash: empty, not three parts, or a salt or
\* hash segment that is not standard base64.
Unparseable(hash) ==
    \/ hash = <<>>
    \/ Len(Split(hash, Dot)) # 3
    \/ ~DecodeString(StdEncoding, Split(hash, Dot)[2]).ok
    \/ ~DecodeString(StdEncoding, Split(hash, Dot)[3]).ok

\* A stored string whose strategy the factory does not resolve.
Unresolvable(hash) ==
    ~Unparseable(hash) /\ ~createPasswordHashingStrategy(Split(hash, Dot)[1]).ok

C12_Case ==
    /\ stored # NoHash
    /\ ~stored[1].h.panic
    /\ parsePasswordHash(stored[1].hash).ok

\* C12, as claimed: in pbkdf2/hmacsha256/X/Y the hash is PBKDF2 with
\* decode(X) iterations and a key of decode(Y) bytes.
C12_FieldsAsClaimed ==
    C12_Case =>
        LET args == SplitN(stored[1].h.strategy, Slash, 4)
            pwdh == parsePasswordHash(stored[1].hash).pwdh
        IN  /\ Len(pwdh.hash) = DecodeToInt(args[4])
            /\ pwdh.hash = Pbkdf2Key(stored[1].password, pwdh.salt,
                                     DecodeToInt(args[3]), DecodeToInt(args[4]))

\* C12, amended: in pbkdf2/hmacsha256/X/Y the hash is PBKDF2 with a key
\* of decode(X) bytes and decode(Y) iterations.
C12_Fields ==
    C12_Case =>
        LET args == SplitN(stored[1].h.strategy, Slash, 4)
            pwdh == parsePasswordHash(stored[1].hash).pwdh
        IN  /\ Len(pwdh.hash) = DecodeToInt(args[3])
            /\ pwdh.hash = Pbkdf2Key(stored[1].password, pwdh.salt,
                                     DecodeToInt(args[4]), DecodeToInt(args[3]))

\* C12's case: under pbkdf2/hmacsha256/A/9 the hash has 10 bytes.
C12_Witness ==
    /\ C12_Case
    /\ stored[1].h.strategy = OldStrategy
    /\ Len(parsePasswordHash(stored[1].hash).pwdh.hash) = 10

\* A strategy of a registered family, with exactly four fields, the second
\* of them hmacsha256.
ExactStrategy(strategy) ==
    /\ Len(Split(strategy, Slash)) = 4
    /\ Split(strategy, Slash)[1] \in supportedStrategies
    /\ Split(strategy, Slash)[2] = Str("hmacsha256")

\* C13, as claimed: the factory resolves a strategy only when its family
\* is exactly a registered one, it has exactly four fields and the second
\* is hmacsha256.
C13_ExactStrategyOnly ==
    (stored # NoHash /\ ~stored[1].h.panic) => ExactStrategy(stored[1].h.strategy)

---------------------------------------------------------------------------
(* Properties of the library functions                                     *)

Called(fn) == call # NoResult /\ call[1].fn = fn

\* The bytes that Pad added to the data of the call.
Added == SubSeq(call[1].out, Len(call[1].data) + 1, Len(call[1].out))

\* C14, as claimed: for every block size n >= 1, those above 255 included,
\* Unpad(Pad(data, n), n) = data with no error; Pad adds 1 to n bytes,
\* each the number of bytes added, and n bytes to a multiple of n.
C14_PadRoundTrip ==
    Called("pkcs7.Pad") =>
        /\ Unpad(call[1].out, call[1].blockSize)
           = [ok |-> TRUE, panic |-> FALSE, bytes |-> call[1].data]
        /\ SubSeq(call[1].out, 1, Len(call[1].data)) = call[1].data
        /\ Len(Added) \in 1..call[1].blockSize
        /\ \A i \in 1..Len(Added) : Added[i] = Len(Added)
        /\ Len(call[1].data) % call[1].blockSize = 0 => Len(Added) = call[1].blockSize

\* The data of the call of Unpad ends in valid padding of L bytes.
ValidPadding(data, blockSize, L) ==
    /\ Len(data) > 0 /\ Len(data) % blockSize = 0
    /\ L = data[Len(data)]
    /\ 1 <= L /\ L <= blockSize /\ L <= Len(data)
    /\ \A i \in (Len(data) - L + 1)..Len(data) : data[i] = L

\* C15, as claimed: Unpad returns the data without its last L bytes when
\* they are valid padding, and in every other case returns an error and
\* does not panic.
C15_UnpadValidOnly ==
    Called("pkcs7.Unpad") =>
        IF \E L \in 1..255 : ValidPadding(call[1].data, call[1].blockSize, L)
        THEN /\ call[1].out.ok /\ ~call[1].out.panic
             /\ call[1].out.bytes
                = SubSeq(call[1].data, 1, Len(call[1].data) - call[1].data[Len(call[1].data)])
        ELSE ~call[1].out.ok /\ ~call[1].out.panic

\* C16: Hashes is true exactly when the two have one length and are equal
\* at every index; with different lengths it visits no index, with equal
\* lengths its loop visits every index 0..len-1, wherever they differ.
C16_HashesComparesAll ==
    Called("compare.Hashes") =>
        LET a == call[1].hash1
            b == call[1].hash2
        IN  /\ call[1].out.equal
               <=> (Len(a) = Len(b) /\ \A i \in 1..Len(a) : a[i] = b[i])
            /\ call[1].equal = call[1].out.equal
            /\ Len(a) # Len(b) => call[1].out.visited = <<>>
            /\ Len(a) = Len(b) => call[1].out.visited = [i \in 1..Len(a) |-> i - 1]

\* C16's case: two hashes of one length that differ at the first index,
\* and every index was visited.
C16_Witness ==
    /\ Called("compare.Hashes")
    /\ Len(call[1].hash1) = MaxDataLen /\ Len(call[1].hash2) = MaxDataLen
    /\ call[1].hash1[1] # call[1].hash2[1]
    /\ ~call[1].out.equal
    /\ Len(call[1].out.visited) = MaxDataLen

\* C17: with an encryption key of 16, 24 or 32 bytes Generate returns a
\* token that is not empty and a nil error; with a key of any other
\* length it returns an error and the empty string.
C17_GenerateFailsCleanly ==
    Called("token.Generate") =>
        IF Len(call[1].key) \in {16, 24, 32}
        THEN call[1].out.err = Nil /\ call[1].out.token # <<>>
        ELSE call[1].out.err # Nil /\ call[1].out.token = <<>>

\* C17's case: Generate was called with a key of 15 bytes and returned an
\* error and no token.
C17_Witness ==
    /\ Called("token.Generate")
    /\ Len(call[1].key) = 15
    /\ call[1].out.err # Nil /\ call[1].out.token = <<>>

\* C19: ValidatePassword with an empty password or an empty stored
\* hash string returns (false, false), and on that execution neither
\* the strategy factory nor the KDF is invoked.
C19_EmptyShortCircuits ==
    pres # NoResult /\ (pres[1].password = <<>> \/ pres[1].hash = <<>>)
       => /\ ~pres[1].ok
          /\ ~pres[1].needsUpgrade
          /\ \A i \in 1..Len(pres[1].calls) :
                pres[1].calls[i] \notin {"computeHashFactory", "computeHash"}

\* The empty password is validated against a string that a hasher wrote
\* and that parses under a strategy the factory resolves.
C19_Witness ==
    /\ ReturningPassword("stored")
    /\ pres[1].password = <<>>
    /\ parsePasswordHash(pres[1].hash).ok
    /\ createPasswordHashingStrategy(parsePasswordHash(pres[1].hash).pwdh.strategy).ok
    /\ ~pres[1].ok

\* C20: newHasher panics if and only if the strategy factory returns an
\* error for the configured strategy, and every hasher that was
\* constructed holds a hash function and writes, for every password,
\* strategy '.' base64std(salt) '.' base64std(KDF(password, salt)) with
\* a salt of 32 bytes from the salt generator.
C20_FailsAtConstruction ==
    stored # NoHash =>
       /\ stored[1].h.panic <=> ~createPasswordHashingStrategy(stored[1].h.strategy).ok
       /\ ~stored[1].h.panic =>
             /\ stored[1].h.computeHash.ok
             /\ \E r \in Seeds :
                   /\ Len(GenerateBytes(SaltLength, r)) = 32
                   /\ stored[1].hash =
                         stored[1].h.strategy \o <<Dot>>
                         \o EncodeToString(StdEncoding, GenerateBytes(SaltLength, r))
                         \o <<Dot>>
                         \o EncodeToString(StdEncoding,
                               computeHash(createPasswordHashingStrategy(stored[1].h.strategy),
                                           stored[1].password,
                                           GenerateBytes(SaltLength, r)))

\* A constructed hasher has written the string for a password, and the
\* string parses back into a 32-byte salt and a hash.
C20_Witness ==
    /\ stored # NoHash
    /\ ~stored[1].h.panic
    /\ stored[1].password # <<>>
    /\ parsePasswordHash(stored[1].hash).ok
    /\ Len(parsePasswordHash(stored[1].hash).pwdh.salt) = 32
    /\ parsePasswordHash(stored[1].hash).pwdh.hash # <<>>

\* C22: ValidatePassword never returns ok = true for a stored string
\* whose decoded hash segment is empty, whatever strategy parameters the
\* string names.
C22_EmptyHashNeverMatches ==
    /\ pres # NoResult
    /\ parsePasswordHash(pres[1].hash).ok
    /\ parsePasswordHash(pres[1].hash).pwdh.hash = <<>>
    => ~pres[1].ok

\* ---------------------------------------------------------------------
\* Concurrent callers of shared instances
\* ---------------------------------------------------------------------

RECURSIVE RuneCount(_, _)
RuneCount(password, i) ==
    IF i > Len(password) THEN 0
    ELSE 1 + RuneCount(password, i + DecodeRuneAt(password, i).size)

\* The check f accepts the password: at least f.min runes of its class,
\* or at least f.min characters.
Accepts(f, password) ==
    IF f.check = "length" THEN RuneCount(password, 1) >= f.min
    ELSE CountMatches(f.class, password, 1, 0) >= f.min

\* The checks of the policy that do not accept the password, in the
\* order they were given.
Failing(funcs, password) ==
    SelectSeq([i \in 1..Len(funcs) |-> i], LAMBDA i : ~Accepts(funcs[i], password))

\* C21: a PolicyFunc returns ok = true if and only if every check accepts
\* the password, and errMsgs holds exactly one message for each failing
\* check, in the order of the checks; a count check with minCount m
\* accepts iff the password has at least m runes of its class, and
\* LengthCheck(m) accepts iff the password has at least m characters.
C21_PolicyReportsFailingChecks ==
    Called("pwd.Policy") =>
       LET c == call[1]
           failing == Failing(c.funcs, c.password)
       IN  /\ c.out.ok <=> \A i \in 1..Len(c.funcs) : Accepts(c.funcs[i], c.password)
           /\ Len(c.out.errMsgs) = Len(failing)
           /\ \A k \in 1..Len(failing) :
                 c.out.errMsgs[k] = CallCheck(c.funcs[failing[k]], <<>>).errMsg
           /\ c.out.ok => c.out.errMsgs = <<>>

====
